---- MODULE Spec2Model ----
(***************************************************************************)
(* Prompt versioning and lifecycle engine of the prompt-manager backend.   *)
(*                                                                         *)
(* The model follows backend/services/prompt_service.py statement by       *)
(* statement, with the request routes of backend/api/prompts.py that call  *)
(* it and the session handling of backend/core/database.py.                *)
(*                                                                         *)
(* Storage semantics.  The engine is the synchronous SQLite engine of      *)
(* core/config.py (DATABASE_URL = sqlite:///./prompt_manager.db) built in  *)
(* core/database.py without PRAGMA foreign_keys:                           *)
(*   - a SELECT runs outside a transaction and sees the committed rows     *)
(*     (plus the session's own flushed rows);                              *)
(*   - the first flushed INSERT/UPDATE/DELETE of a session begins the      *)
(*     transaction and takes the database write lock, held until commit or *)
(*     rollback; another writer waits or fails with OperationalError;      *)
(*   - the UNIQUE(prompt_id, version_number) constraint is enforced;       *)
(*     foreign keys and ON DELETE CASCADE are not, so deleting a prompt    *)
(*     removes the versions the ORM cascade loaded in Session.delete();    *)
(*   - an ORM UPDATE that matches no row raises StaleDataError, an ORM     *)
(*     DELETE that matches no row only warns.                              *)
(* The service writes the version content through the attribute `body`;    *)
(* it is the versioned content column of PromptVersion, which the model    *)
(* file declares nullable=False.                                           *)
(***************************************************************************)
EXTENDS Integers, FiniteSets, Sequences, TLC

\* ---------------------------------------------------------------- bounds
\* number of uuid4() values the model hands out
MaxIds == 4
\* the same when requests are served one at a time
MaxSeqIds == 6

\* concurrent request handlers, each with its own Session (get_db); the
\* third one serves requests only where three requests are raced
Sessions == {"s1", "s2", "s3"}
NoSession == "none"

NULL == "NULL"
\* current_version_id is nullable; identifiers start at 1
NoVersion == 0
Bodies == {"A", "B"}
Tenants == {1, 2}
\* a title is a sequence of tokens, so that f"{existing.title}_copy" is Append
Titles == {<<"T1">>}
NoTitle == <<>>
NewTitles == {<<"T2">>}
NewDescriptions == {"D2"}
\* body=latest_version.body if latest_version else ""
EmptyBody == ""

\* PromptUpdate payloads: a content update, or a metadata-only update
\* (content None) with any choice of title and description
PromptUpdate ==
    [content : Bodies, title : {NoTitle}, description : {NULL}]
    \cup [content : {NULL}, title : NewTitles \cup {NoTitle},
          description : NewDescriptions \cup {NULL}]

\* ---------------------------------------------------------------- state
VARIABLES
    prompts,      \* committed rows of table prompts
    versions,     \* committed rows of table prompt_versions
    nextId,       \* identifiers below nextId were carried by committed rows
    lock,         \* session holding the database write lock, or NoSession
    pendP,        \* prompt rows flushed by the lock holder, not committed
    pendV,        \* version rows flushed by the lock holder, not committed
    sess          \* per session: the request it serves and its position

vars == <<prompts, versions, nextId, lock, pendP, pendV, sess>>

\* ---------------------------------------------------------------- rows
\* datetime.now(tz=timezone.utc), read as a logical clock: the instants are
\* numbered by the rows written so far (committed, or flushed in the open
\* transaction), so the clock has moved on whenever a row has been written
now == nextId + Cardinality(pendP) + Cardinality(pendV)

\* Column(DateTime, ..., onupdate=datetime.now(tz=timezone.utc)): the
\* argument is evaluated once, when the module is imported, before the
\* first request; an UPDATE that does not set updated_at stores this value
onupdate == 0

\* Prompt(..., created_at=datetime.now(...), updated_at=datetime.now(...))
Prompt(id, tenant_id, title, description) ==
    [id |-> id, tenant_id |-> tenant_id, title |-> title,
     description |-> description, is_archived |-> FALSE,
     current_version_id |-> NoVersion,
     created_at |-> now, updated_at |-> now]

PromptVersion(id, prompt_id, version_number, body) ==
    [id |-> id, prompt_id |-> prompt_id,
     version_number |-> version_number, body |-> body]

\* Column(Text, nullable=False) of the versioned content
not_null(value) == value # NULL

\* variant: the table is created without the uniqueness constraint
uq_prompt_version_absent(rows, row) == TRUE

\* UniqueConstraint("prompt_id", "version_number")
uq_prompt_version(rows, row) ==
    \A v \in rows : ~(v.prompt_id = row.prompt_id
                      /\ v.version_number = row.version_number)

\* ------------------------------------------------------- session record
IdleSession ==
    [pc |-> "idle", op |-> "none", pid |-> 0, k |-> 0,
     content |-> NULL, title |-> NoTitle, description |-> NULL, tenant |-> 0,
     existing |-> {}, nv |-> 0, tbody |-> NULL, newPid |-> 0, newVid |-> 0,
     loaded |-> {}, status |-> 0, cause |-> "none", attempts |-> 0,
     response |-> <<>>, payload |-> <<>>, total |-> 0]

\* rows a SELECT of session s sees
VisiblePrompts(s) == IF lock = s THEN prompts \cup pendP ELSE prompts
\* variant: every session sees the version rows flushed by the lock holder
VisibleVersions_dirty(s) == versions \cup pendV
VisibleVersions(s) == IF lock = s THEN versions \cup pendV ELSE versions

\* get_prompt: select(Prompt).filter(Prompt.id == prompt_id).first()
get_prompt(rows, prompt_id) == {p \in rows : p.id = prompt_id}

SetMax(S) == CHOOSE x \in S : \A y \in S : y <= x

\* variant: the next number skips one
new_version_number_skip(rows, prompt_id) ==
    LET ns == {v.version_number : v \in {w \in rows : w.prompt_id = prompt_id}}
    IN  IF ns = {} THEN 1 ELSE SetMax(ns) + 2

\* select(PromptVersion).filter(prompt_id).order_by(version_number.desc()).first()
\* followed by (latest_version.version_number + 1) if latest_version else 1
new_version_number(rows, prompt_id) ==
    LET ns == {v.version_number : v \in {w \in rows : w.prompt_id = prompt_id}}
    IN  IF ns = {} THEN 1 ELSE SetMax(ns) + 1

\* variant: the filter on version_number is missing
select_target_any(rows, prompt_id, version_number) ==
    {v \in rows : v.prompt_id = prompt_id}

\* select(PromptVersion).filter(PromptVersion.prompt_id == prompt_id,
\*                             PromptVersion.version_number == version_number)
select_target(rows, prompt_id, version_number) ==
    {v \in rows : v.prompt_id = prompt_id /\ v.version_number = version_number}

\* db.rollback(): drop the flushed rows and release the write lock
SessionRollback(s) ==
    IF lock = s
    THEN lock' = NoSession /\ pendP' = {} /\ pendV' = {}
    ELSE UNCHANGED <<lock, pendP, pendV>>

\* uuid4(): an identifier no row has ever carried.  Identifiers of rows that
\* were rolled back were never visible to anyone, so the next fresh one is
\* counted from the committed rows and the rows pending in this transaction.
uuid4 == nextId + Cardinality(pendP) + Cardinality(pendV)

\* a session slot that serves no request
ParkedSession == [IdleSession EXCEPT !.pc = "parked"]

\* how many identifiers are handed out: fewer when requests overlap
IdBudget ==
    IF Cardinality({s \in Sessions : sess[s] # ParkedSession}) <= 1
    THEN MaxSeqIds ELSE MaxIds

\* the write lock is free or already ours
CanWrite(s) == lock \in {NoSession, s}

\* what stays of a call once it has left the route: the operation, the
\* HTTP status and the exception behind it
Outcome(r, pc, status, cause) ==
    [IdleSession EXCEPT !.pc = pc, !.op = r.op, !.status = status,
                        !.cause = cause, !.attempts = r.attempts]

\* an exception leaves the route
Raise(s, r, status, cause) ==
    sess' = [sess EXCEPT ![s] = Outcome(r, "raised", status, cause)]

\* the route returns its response
Return(s, r, status) ==
    sess' = [sess EXCEPT ![s] = Outcome(r, "returned", status, "none")]

\* prompt ids a request can name: one that never existed, the committed
\* prompts, and the owners recorded in version rows
PromptIds == {0} \cup {p.id : p \in prompts} \cup {v.prompt_id : v \in versions}

\* tenant ids a create request can name.  Tenant ids are opaque to the code
\* (compared for equality only), so a request names a tenant that already
\* owns a prompt or the first one that owns none.
TenantIds ==
    {t \in Tenants : \A u \in Tenants :
        u < t => \E p \in prompts : p.tenant_id = u}

\* version numbers a request can name for prompt id: none, each existing
\* one, and one past the largest
VersionNumbers(id) ==
    {0} \cup {v.version_number : v \in {w \in versions : w.prompt_id = id}}
        \cup {new_version_number(versions, id)}

\* ------------------------------------------------------- responses
\* content: str = Field(..., min_length=1)
min_length_1(value) == value # EmptyBody

\* PromptResponse(id=prompt.id, content=current_version.body if
\* current_version else "", version=current_version.version_number if
\* current_version else 1, is_deleted=prompt.is_archived, ...) with the
\* version that current_version_id names, if it is set and found
GetPromptResponse(prompt, rows) ==
    LET cv == {v \in rows : prompt.current_version_id # NoVersion
                             /\ v.id = prompt.current_version_id}
    IN  [id |-> prompt.id, tenant_id |-> prompt.tenant_id,
         is_deleted |-> prompt.is_archived,
         content |-> IF cv = {} THEN EmptyBody
                     ELSE (CHOOSE v \in cv : TRUE).body,
         version |-> IF cv = {} THEN 1
                     ELSE (CHOOSE v \in cv : TRUE).version_number]

\* ---------------------------------------------------------------- Init
Init ==
    /\ prompts = {}
    /\ versions = {}
    /\ nextId = 1
    /\ lock = NoSession
    /\ pendP = {}
    /\ pendV = {}
    /\ sess = [s \in Sessions |->
                 IF s \in {"s1", "s2"} THEN IdleSession ELSE ParkedSession]

\* ------------------------------------------------------- create_prompt
\* POST /v1/prompts -> prompt_service.create_prompt(db, service_prompt)
StartCreate(s) ==
    /\ sess[s].pc = "idle"
    /\ \E t \in TenantIds, ti \in Titles, b \in Bodies :
          sess' = [sess EXCEPT ![s] = [IdleSession EXCEPT
                      !.pc = "create_add_prompt", !.op = "create",
                      !.tenant = t, !.title = ti, !.content = b,
                      !.attempts = 1]]
    /\ UNCHANGED <<prompts, versions, nextId, lock, pendP, pendV>>

\* prompt_id = uuid4(); db.add(new_prompt); db.flush()
create_add_prompt(s) ==
    /\ sess[s].pc = "create_add_prompt"
    /\ uuid4 <= IdBudget
    /\ CanWrite(s)
    /\ lock' = s
    /\ pendP' = pendP \cup {Prompt(uuid4, sess[s].tenant, sess[s].title,
                                   sess[s].description)}
    /\ sess' = [sess EXCEPT ![s].pc = "create_add_version", ![s].newPid = uuid4]
    /\ UNCHANGED <<prompts, versions, nextId, pendV>>

\* version_id = uuid4(); db.add(first_version); db.flush()
\* shared by create_prompt and duplicate_prompt, which insert version 1 of
\* the new prompt the same way
AddFirstVersion(s, body, nextPc) ==
    /\ uuid4 <= IdBudget
    /\ lock = s
    /\ LET row == PromptVersion(uuid4, sess[s].newPid, 1, body)
       IN  IF ~not_null(body)
              \/ ~uq_prompt_version(versions \cup pendV, row)
           THEN /\ SessionRollback(s)
                /\ Raise(s, sess[s], 500, "integrity")
           ELSE /\ pendV' = pendV \cup {row}
                /\ sess' = [sess EXCEPT ![s].pc = nextPc, ![s].newVid = uuid4]
                /\ UNCHANGED <<lock, pendP>>
    /\ UNCHANGED <<prompts, versions, nextId>>

\* variant: the first version is stored with an empty body
create_add_version_empty(s) ==
    /\ sess[s].pc = "create_add_version"
    /\ AddFirstVersion(s, EmptyBody, "create_commit")

create_add_version(s) ==
    /\ sess[s].pc = "create_add_version"
    /\ AddFirstVersion(s, sess[s].content, "create_commit")

\* variant: the commit happens without linking the prompt to its version
CommitNewPrompt_unlinked(s) ==
    /\ lock = s
    /\ prompts' = prompts \cup pendP
    /\ versions' = versions \cup pendV
    /\ nextId' = uuid4
    /\ lock' = NoSession /\ pendP' = {} /\ pendV' = {}

\* new_prompt.current_version_id = first_version.id; db.commit()
\* shared by create_prompt and duplicate_prompt; the UPDATE of the pointer
\* does not set updated_at, so the column's onupdate value is stored
CommitNewPrompt(s) ==
    /\ lock = s
    /\ prompts' = prompts \cup
          {[p EXCEPT !.current_version_id = sess[s].newVid,
                     !.updated_at = onupdate] : p \in pendP}
    /\ versions' = versions \cup pendV
    /\ nextId' = uuid4
    /\ lock' = NoSession /\ pendP' = {} /\ pendV' = {}

create_commit(s) ==
    /\ sess[s].pc = "create_commit"
    /\ CommitNewPrompt(s)
    /\ sess' = [sess EXCEPT ![s].pc = "create_refresh"]

\* db.refresh(instance): SELECT the row again by its primary key; a row
\* that is no longer there is an InvalidRequestError (a SQLAlchemyError)
refresh(rows, prompt_id) == get_prompt(rows, prompt_id)

\* db.refresh(new_prompt); return new_prompt: the route answers 201 from
\* the payload and the returned row.  The refresh is inside the service's
\* try block: except SQLAlchemyError: db.rollback(); raise HTTPException(500)
create_refresh(s) ==
    /\ sess[s].pc = "create_refresh"
    /\ IF refresh(VisiblePrompts(s), sess[s].newPid) = {}
       THEN Raise(s, sess[s], 500, "refresh")
       ELSE Return(s, sess[s], 201)
    /\ UNCHANGED <<prompts, versions, nextId, lock, pendP, pendV>>

\* ------------------------------------------------------- update_prompt
\* PATCH /v1/prompts/{prompt_id}: the route keeps payload.content as body and
\* drops payload.title and payload.description, then calls the service:
\* prompt = get_prompt(db, prompt_id); if not prompt: raise 404
update_get_prompt(s) ==
    /\ sess[s].pc = "idle"
    /\ \E id \in PromptIds, pl \in PromptUpdate :
          LET b == pl.content
              ti == pl.title
              d == pl.description
              r == [IdleSession EXCEPT !.op = "update", !.pid = id,
                       !.content = b, !.title = ti, !.description = d,
                       !.attempts = 1]
          IN  IF get_prompt(VisiblePrompts(s), id) = {}
              THEN Raise(s, r, 404, "notfound")
              ELSE sess' = [sess EXCEPT ![s] =
                               [r EXCEPT !.pc = "update_read_max"]]
    /\ UNCHANGED <<prompts, versions, nextId, lock, pendP, pendV>>

\* latest_version = ...first(); new_version_number = latest + 1 or 1
update_read_max(s) ==
    /\ sess[s].pc = "update_read_max"
    /\ sess' = [sess EXCEPT ![s].pc = "update_add_version",
                  ![s].nv = new_version_number(VisibleVersions(s), sess[s].pid)]
    /\ UNCHANGED <<prompts, versions, nextId, lock, pendP, pendV>>

\* version_id = uuid4(); db.add(new_version); db.flush()
\* shared by update_prompt and rollback_prompt, which insert the same way;
\* IntegrityError is a SQLAlchemyError: db.rollback(), HTTPException(500)
AddVersion(s, body, nextPc) ==
    /\ uuid4 <= IdBudget
    /\ CanWrite(s)
    /\ LET row == PromptVersion(uuid4, sess[s].pid, sess[s].nv, body)
       IN  IF ~not_null(body)
           THEN /\ SessionRollback(s)
                /\ Raise(s, sess[s], 500, "notnull")
           ELSE IF ~uq_prompt_version(versions \cup pendV, row)
           THEN /\ SessionRollback(s)
                /\ Raise(s, sess[s], 500, "unique")
           ELSE /\ lock' = s
                /\ pendV' = pendV \cup {row}
                /\ pendP' = pendP
                /\ sess' = [sess EXCEPT ![s].pc = nextPc, ![s].newVid = uuid4]
    /\ UNCHANGED <<prompts, versions, nextId>>

update_add_version(s) ==
    /\ sess[s].pc = "update_add_version"
    /\ AddVersion(s, sess[s].content, "update_commit")

\* variant: the new version is committed but the pointer is not moved
CommitPointer_unmoved(s) ==
    /\ prompts' = prompts
    /\ versions' = versions \cup pendV
    /\ nextId' = uuid4
    /\ lock' = NoSession /\ pendP' = {} /\ pendV' = {}

\* variant: a rollback re-activates the target row instead of the new one
CommitPointer_rewind(s) ==
    /\ prompts' = {IF p.id = sess[s].pid
                   THEN [p EXCEPT !.current_version_id =
                           IF sess[s].op = "rollback"
                           THEN (CHOOSE v \in versions :
                                    v.prompt_id = sess[s].pid
                                    /\ v.version_number = sess[s].k).id
                           ELSE sess[s].newVid]
                   ELSE p : p \in prompts}
    /\ versions' = versions \cup pendV
    /\ nextId' = uuid4
    /\ lock' = NoSession /\ pendP' = {} /\ pendV' = {}

\* variant: committing a new version clears the prompt's archive flag
CommitPointer_unarchives(s) ==
    /\ prompts' = {IF p.id = sess[s].pid
                   THEN [p EXCEPT !.current_version_id = sess[s].newVid,
                                  !.updated_at = now,
                                  !.is_archived = FALSE]
                   ELSE p : p \in prompts}
    /\ versions' = versions \cup pendV
    /\ nextId' = uuid4
    /\ lock' = NoSession /\ pendP' = {} /\ pendV' = {}

\* variant: the pointer is moved without setting updated_at, which leaves
\* the column to its onupdate value
CommitPointer_onupdate(s) ==
    /\ prompts' = {IF p.id = sess[s].pid
                   THEN [p EXCEPT !.current_version_id = sess[s].newVid,
                                  !.updated_at = onupdate]
                   ELSE p : p \in prompts}
    /\ versions' = versions \cup pendV
    /\ nextId' = uuid4
    /\ lock' = NoSession /\ pendP' = {} /\ pendV' = {}

\* variant: the UPDATE of the pointer has no WHERE clause and moves the
\* pointer of every prompt
CommitPointer_every(s) ==
    /\ prompts' = {[p EXCEPT !.current_version_id = sess[s].newVid,
                             !.updated_at = now] : p \in prompts}
    /\ versions' = versions \cup pendV
    /\ nextId' = uuid4
    /\ lock' = NoSession /\ pendP' = {} /\ pendV' = {}

\* prompt.current_version_id = new_version.id;
\* prompt.updated_at = datetime.now(tz=timezone.utc); db.commit()
\* the flush inside commit emits UPDATE prompts ... WHERE id = prompt_id
CommitPointer(s) ==
    /\ prompts' = {IF p.id = sess[s].pid
                   THEN [p EXCEPT !.current_version_id = sess[s].newVid,
                                  !.updated_at = now]
                   ELSE p : p \in prompts}
    /\ versions' = versions \cup pendV
    /\ nextId' = uuid4
    /\ lock' = NoSession /\ pendP' = {} /\ pendV' = {}

\* an UPDATE that matches no row is a StaleDataError (a SQLAlchemyError);
\* after the commit the route answers with the current version
update_commit(s) ==
    /\ sess[s].pc = "update_commit"
    /\ lock = s
    /\ IF get_prompt(prompts, sess[s].pid) = {}
       THEN /\ SessionRollback(s)
            /\ Raise(s, sess[s], 500, "stale")
            /\ UNCHANGED <<prompts, versions, nextId>>
       ELSE /\ CommitPointer(s)
            /\ sess' = [sess EXCEPT ![s].pc = "update_refresh"]

\* db.refresh(prompt); return prompt
update_refresh(s) ==
    /\ sess[s].pc = "update_refresh"
    /\ LET found == refresh(VisiblePrompts(s), sess[s].pid)
       IN  IF found = {}
           THEN Raise(s, sess[s], 500, "refresh")
           ELSE sess' = [sess EXCEPT ![s].pc = "update_read_version",
                                     ![s].existing = found]
    /\ UNCHANGED <<prompts, versions, nextId, lock, pendP, pendV>>

\* back in the route: select the version updated_prompt.current_version_id
\* names and build the PromptResponse; a response that fails validation,
\* like any other exception, becomes HTTPException(500)
update_read_version(s) ==
    /\ sess[s].pc = "update_read_version"
    /\ \E e \in sess[s].existing :
         LET out == GetPromptResponse(e, VisibleVersions(s))
         IN  IF ~min_length_1(out.content)
             THEN Raise(s, sess[s], 500, "validation")
             ELSE \/ sess' = [sess EXCEPT ![s] =
                        [Outcome(sess[s], "returned", 200, "none") EXCEPT
                            !.response = <<out>>]]
                  \/ Raise(s, sess[s], 500, "storage")
    /\ UNCHANGED <<prompts, versions, nextId, lock, pendP, pendV>>

\* ------------------------------------------------------- rollback_prompt
\* target = select(PromptVersion).filter(prompt_id, version_number).first()
\* if not target: raise 404
rollback_get_target(s) ==
    /\ sess[s].pc = "idle"
    /\ \E id \in PromptIds :
       \E k \in VersionNumbers(id) :
          LET r == [IdleSession EXCEPT !.op = "rollback", !.pid = id,
                       !.k = k, !.attempts = 1]
              target == select_target(VisibleVersions(s), id, k)
          IN  IF target = {}
              THEN Raise(s, r, 404, "notfound")
              ELSE \E t \in target :
                     sess' = [sess EXCEPT ![s] =
                                 [r EXCEPT !.pc = "rollback_read_max",
                                           !.tbody = t.body]]
    /\ UNCHANGED <<prompts, versions, nextId, lock, pendP, pendV>>

rollback_read_max(s) ==
    /\ sess[s].pc = "rollback_read_max"
    /\ sess' = [sess EXCEPT ![s].pc = "rollback_add_version",
                  ![s].nv = new_version_number(VisibleVersions(s), sess[s].pid)]
    /\ UNCHANGED <<prompts, versions, nextId, lock, pendP, pendV>>

\* variant: the rollback copies the body of the prompt's current version
rollback_add_version_current(s) ==
    /\ sess[s].pc = "rollback_add_version"
    /\ \E p \in get_prompt(VisiblePrompts(s), sess[s].pid) :
       \E v \in {w \in VisibleVersions(s) : w.id = p.current_version_id} :
          AddVersion(s, v.body, "rollback_commit")

rollback_add_version(s) ==
    /\ sess[s].pc = "rollback_add_version"
    /\ AddVersion(s, sess[s].tbody, "rollback_commit")

\* prompt = get_prompt(db, prompt_id); prompt.current_version_id = ...;
\* db.commit().  A None prompt raises AttributeError, which the service's
\* except SQLAlchemyError does not catch: no db.rollback() in the service,
\* the flushed row stays pending until get_db rolls the session back.
rollback_commit(s) ==
    /\ sess[s].pc = "rollback_commit"
    /\ lock = s
    /\ IF get_prompt(VisiblePrompts(s), sess[s].pid) = {}
       THEN /\ Raise(s, sess[s], 500, "attribute")
            /\ UNCHANGED <<prompts, versions, nextId, lock, pendP, pendV>>
       ELSE /\ CommitPointer(s)
            /\ sess' = [sess EXCEPT ![s].pc = "rollback_refresh"]

\* db.refresh(prompt); return prompt
rollback_refresh(s) ==
    /\ sess[s].pc = "rollback_refresh"
    /\ IF refresh(VisiblePrompts(s), sess[s].pid) = {}
       THEN Raise(s, sess[s], 500, "refresh")
       ELSE Return(s, sess[s], 200)
    /\ UNCHANGED <<prompts, versions, nextId, lock, pendP, pendV>>

\* ------------------------------------------------------- delete_prompt
\* variant: the delete goes on without checking that the prompt was found
delete_get_prompt_unchecked(s) ==
    /\ sess[s].pc = "idle"
    /\ \E id \in PromptIds :
          sess' = [sess EXCEPT ![s] =
                      [IdleSession EXCEPT !.pc = "delete_mark", !.op = "delete",
                                          !.pid = id, !.attempts = 1]]
    /\ UNCHANGED <<prompts, versions, nextId, lock, pendP, pendV>>

\* DELETE /v1/prompts/{prompt_id}:
\* prompt = get_prompt(db, prompt_id); if not prompt: raise 404
delete_get_prompt(s) ==
    /\ sess[s].pc = "idle"
    /\ \E id \in PromptIds :
          LET r == [IdleSession EXCEPT !.op = "delete", !.pid = id,
                       !.attempts = 1]
          IN  IF get_prompt(VisiblePrompts(s), id) = {}
              THEN Raise(s, r, 404, "notfound")
              ELSE sess' = [sess EXCEPT ![s] = [r EXCEPT !.pc = "delete_mark"]]
    /\ UNCHANGED <<prompts, versions, nextId, lock, pendP, pendV>>

\* db.delete(prompt): the "all, delete-orphan" cascade loads prompt.versions
\* and marks each loaded version for deletion
delete_mark(s) ==
    /\ sess[s].pc = "delete_mark"
    /\ sess' = [sess EXCEPT ![s].pc = "delete_commit",
                  ![s].loaded = {v.id : v \in {w \in VisibleVersions(s) :
                                                w.prompt_id = sess[s].pid}}]
    /\ UNCHANGED <<prompts, versions, nextId, lock, pendP, pendV>>

\* variant: the commit deletes the version rows of every prompt
delete_commit_all(s) ==
    /\ sess[s].pc = "delete_commit"
    /\ lock = NoSession
    /\ prompts' = {p \in prompts : p.id # sess[s].pid}
    /\ versions' = {}
    /\ Return(s, sess[s], 204)
    /\ UNCHANGED <<nextId, lock, pendP, pendV>>

\* db.commit(): DELETE the marked versions, DELETE the prompt, commit
delete_commit(s) ==
    /\ sess[s].pc = "delete_commit"
    /\ lock = NoSession
    /\ prompts' = {p \in prompts : p.id # sess[s].pid}
    /\ versions' = {v \in versions : v.id \notin sess[s].loaded}
    /\ Return(s, sess[s], 204)
    /\ UNCHANGED <<nextId, lock, pendP, pendV>>

\* ------------------------------------------------------- duplicate_prompt
\* existing = get_prompt(db, prompt_id); if not existing: raise 404
duplicate_get_prompt(s) ==
    /\ sess[s].pc = "idle"
    /\ \E id \in PromptIds :
          LET r == [IdleSession EXCEPT !.op = "duplicate", !.pid = id,
                       !.attempts = 1]
              found == get_prompt(VisiblePrompts(s), id)
          IN  IF found = {}
              THEN Raise(s, r, 404, "notfound")
              ELSE sess' = [sess EXCEPT ![s] =
                               [r EXCEPT !.pc = "duplicate_read_current",
                                         !.existing = found]]
    /\ UNCHANGED <<prompts, versions, nextId, lock, pendP, pendV>>

\* select(PromptVersion).filter(PromptVersion.id == existing.current_version_id)
\* body=latest_version.body if latest_version else ""
duplicate_read_current(s) ==
    /\ sess[s].pc = "duplicate_read_current"
    /\ \E e \in sess[s].existing :
         LET latest == {v \in VisibleVersions(s) : v.id = e.current_version_id}
         IN  sess' = [sess EXCEPT ![s].pc = "duplicate_add_prompt",
                        ![s].tbody = IF latest = {} THEN EmptyBody
                                     ELSE (CHOOSE v \in latest : TRUE).body]
    /\ UNCHANGED <<prompts, versions, nextId, lock, pendP, pendV>>

\* variant: the copy is filed under a tenant of the caller's choice
duplicate_add_prompt_any_tenant(s) ==
    /\ sess[s].pc = "duplicate_add_prompt"
    /\ uuid4 <= IdBudget
    /\ CanWrite(s)
    /\ lock' = s
    /\ \E e \in sess[s].existing, t \in Tenants :
         pendP' = pendP \cup {Prompt(uuid4, t,
                                     Append(e.title, "_copy"), e.description)}
    /\ sess' = [sess EXCEPT ![s].pc = "duplicate_add_version",
                            ![s].newPid = uuid4, ![s].existing = {}]
    /\ UNCHANGED <<prompts, versions, nextId, pendV>>

\* new_prompt_id = uuid4(); db.add(new_prompt); db.flush()
duplicate_add_prompt(s) ==
    /\ sess[s].pc = "duplicate_add_prompt"
    /\ uuid4 <= IdBudget
    /\ CanWrite(s)
    /\ lock' = s
    /\ \E e \in sess[s].existing :
         pendP' = pendP \cup {Prompt(uuid4, e.tenant_id,
                                     Append(e.title, "_copy"), e.description)}
    /\ sess' = [sess EXCEPT ![s].pc = "duplicate_add_version",
                            ![s].newPid = uuid4, ![s].existing = {}]
    /\ UNCHANGED <<prompts, versions, nextId, pendV>>

duplicate_add_version(s) ==
    /\ sess[s].pc = "duplicate_add_version"
    /\ AddFirstVersion(s, sess[s].tbody, "duplicate_commit")

duplicate_commit(s) ==
    /\ sess[s].pc = "duplicate_commit"
    /\ CommitNewPrompt(s)
    /\ sess' = [sess EXCEPT ![s].pc = "duplicate_refresh"]

\* db.refresh(new_prompt); return new_prompt
duplicate_refresh(s) ==
    /\ sess[s].pc = "duplicate_refresh"
    /\ IF refresh(VisiblePrompts(s), sess[s].newPid) = {}
       THEN Raise(s, sess[s], 500, "refresh")
       ELSE Return(s, sess[s], 200)
    /\ UNCHANGED <<prompts, versions, nextId, lock, pendP, pendV>>

\* ------------------------------------------------ version-level routes
\* POST /v1/prompts/{prompt_id}/versions: answers version=2 with the payload
\* content, without touching the database
create_version(s) ==
    /\ sess[s].pc = "idle"
    /\ \E id \in PromptIds, b \in Bodies :
          Return(s, [IdleSession EXCEPT !.op = "create_version", !.pid = id,
                        !.content = b], 200)
    /\ UNCHANGED <<prompts, versions, nextId, lock, pendP, pendV>>

\* variant: the route deletes the version it names
delete_version_removes(s) ==
    /\ sess[s].pc = "idle"
    /\ \E id \in PromptIds :
       \E k \in VersionNumbers(id) :
          /\ versions' = {v \in versions :
                            ~(v.prompt_id = id /\ v.version_number = k)}
          /\ Return(s, [IdleSession EXCEPT !.op = "delete_version", !.pid = id,
                           !.k = k], 204)
    /\ UNCHANGED <<prompts, nextId, lock, pendP, pendV>>

\* DELETE /v1/prompts/{prompt_id}/versions/{vid}: return None
delete_version(s) ==
    /\ sess[s].pc = "idle"
    /\ \E id \in PromptIds :
       \E k \in VersionNumbers(id) :
          Return(s, [IdleSession EXCEPT !.op = "delete_version", !.pid = id,
                        !.k = k], 204)
    /\ UNCHANGED <<prompts, versions, nextId, lock, pendP, pendV>>

\* ------------------------------------------------------- list_versions
\* variant: the rows come back with the largest version_number first
RECURSIVE order_by_version_number_desc(_)
order_by_version_number_desc(rows) ==
    IF rows = {} THEN <<>>
    ELSE LET last == CHOOSE v \in rows :
                        \A w \in rows : v.version_number >= w.version_number
         IN  <<last>> \o order_by_version_number_desc(rows \ {last})

\* .order_by(PromptVersion.version_number.asc())
RECURSIVE order_by_version_number(_)
order_by_version_number(rows) ==
    IF rows = {} THEN <<>>
    ELSE LET first == CHOOSE v \in rows :
                         \A w \in rows : v.version_number <= w.version_number
         IN  <<first>> \o order_by_version_number(rows \ {first})

\* select(PromptVersion).filter(PromptVersion.prompt_id == prompt_id)
\*     .order_by(PromptVersion.version_number.asc())
get_versions(rows, prompt_id) ==
    order_by_version_number({v \in rows : v.prompt_id = prompt_id})

\* PromptVersionResponse(id=version.id, version=version.version_number,
\*                       content=version.body, ...)
PromptVersionResponse(version) ==
    [id |-> version.id, version |-> version.version_number,
     content |-> version.body]

\* GET /v1/prompts/{prompt_id}/versions: the versions in the order the
\* service returns them, or 500 for any exception
list_versions(s) ==
    /\ sess[s].pc = "idle"
    /\ \E id \in PromptIds :
          LET r == [IdleSession EXCEPT !.op = "list_versions", !.attempts = 1]
              found == get_versions(VisibleVersions(s), id)
          IN  \/ sess' = [sess EXCEPT ![s] =
                    [Outcome(r, "returned", 200, "none") EXCEPT
                        !.pid = id,
                        !.response = [i \in 1..Len(found) |->
                                         PromptVersionResponse(found[i])]]]
              \/ Raise(s, r, 500, "storage")
    /\ UNCHANGED <<prompts, versions, nextId, lock, pendP, pendV>>

\* ------------------------------------------------------- get_prompt route
\* GET /v1/prompts/{prompt_id}: prompt = prompt_service.get_prompt(...);
\* if not prompt: raise HTTPException(404), which the route passes on
get_by_id_prompt(s) ==
    /\ sess[s].pc = "idle"
    /\ \E id \in PromptIds :
          LET r == [IdleSession EXCEPT !.op = "get", !.pid = id,
                       !.attempts = 1]
              found == get_prompt(VisiblePrompts(s), id)
          IN  \/ IF found = {}
                 THEN Raise(s, r, 404, "notfound")
                 ELSE sess' = [sess EXCEPT ![s] =
                                  [r EXCEPT !.pc = "get_by_id_version",
                                            !.existing = found]]
              \/ Raise(s, r, 500, "storage")
    /\ UNCHANGED <<prompts, versions, nextId, lock, pendP, pendV>>

\* select the current version and build the PromptResponse; a response
\* that fails validation, like any other exception, becomes 500
get_by_id_version(s) ==
    /\ sess[s].pc = "get_by_id_version"
    /\ \E e \in sess[s].existing :
         LET out == GetPromptResponse(e, VisibleVersions(s))
         IN  IF ~min_length_1(out.content)
             THEN Raise(s, sess[s], 500, "validation")
             ELSE \/ sess' = [sess EXCEPT ![s] =
                        [Outcome(sess[s], "returned", 200, "none") EXCEPT
                            !.pid = sess[s].pid, !.response = <<out>>]]
                  \/ Raise(s, sess[s], 500, "storage")
    /\ UNCHANGED <<prompts, versions, nextId, lock, pendP, pendV>>

\* ------------------------------------------------------- list_prompts
\* skip: int = Query(0, ge=0), limit: int = Query(10, ge=1, le=100)
Skips == {0, 1}
Limits == {1, 10}

\* the orders in which a SELECT without ORDER BY can return a set of rows
Orderings(rows) ==
    {f \in [1..Cardinality(rows) -> rows] :
        \A i \in DOMAIN f, j \in DOMAIN f : i # j => f[i] # f[j]}

\* select(Prompt).options(...).offset(skip).limit(limit): the pages the
\* statement can return; it has no WHERE clause
get_prompts(rows, skip, limit) ==
    {SubSeq(f, skip + 1, IF skip + limit < Len(f) THEN skip + limit ELSE Len(f)) :
        f \in Orderings(rows)}

\* the version the route shows for a prompt: the one current_version_id
\* names, else the one with the largest version_number, else none
current_version(rows, prompt) ==
    LET named == {v \in rows : v.id = prompt.current_version_id}
        own == {v \in rows : v.prompt_id = prompt.id}
    IN  IF prompt.current_version_id # NoVersion /\ named # {}
        THEN named
        ELSE {v \in own : \A w \in own : v.version_number >= w.version_number}

\* PromptResponse(id=prompt.id, content=current_version.body if
\* current_version else "", tenant_id=int(prompt.tenant_id),
\* version=current_version.version_number if current_version else 1, ...)
PromptResponse(prompt, rows) ==
    LET cv == current_version(rows, prompt)
    IN  [id |-> prompt.id, tenant_id |-> prompt.tenant_id,
         is_deleted |-> prompt.is_archived,
         content |-> IF cv = {} THEN EmptyBody
                     ELSE (CHOOSE v \in cv : TRUE).body,
         version |-> IF cv = {} THEN 1
                     ELSE (CHOOSE v \in cv : TRUE).version_number]

\* GET /v1/prompts: prompts = prompt_service.get_prompts(db, skip, limit).
\* The request is made on behalf of a tenant, which the route does not read.
list_get_prompts(s) ==
    /\ sess[s].pc = "idle"
    /\ \E t \in TenantIds, skip \in Skips, limit \in Limits :
       \E page \in get_prompts(VisiblePrompts(s), skip, limit) :
          LET r == [IdleSession EXCEPT !.op = "list_prompts", !.tenant = t,
                       !.attempts = 1]
          IN  \/ sess' = [sess EXCEPT ![s] =
                    [r EXCEPT !.pc = "list_read_versions", !.response = page]]
              \/ Raise(s, r, 500, "storage")
    /\ UNCHANGED <<prompts, versions, nextId, lock, pendP, pendV>>

\* for prompt in prompts: select the version to show and build the
\* PromptResponse; a response that fails validation, like any exception,
\* becomes HTTPException(500)
list_read_versions(s) ==
    /\ sess[s].pc = "list_read_versions"
    /\ LET page == sess[s].response
           out == [i \in 1..Len(page) |->
                      PromptResponse(page[i], VisibleVersions(s))]
       IN  IF \E i \in 1..Len(out) : ~min_length_1(out[i].content)
           THEN Raise(s, sess[s], 500, "validation")
           ELSE \/ sess' = [sess EXCEPT ![s] =
                      [Outcome(sess[s], "returned", 200, "none") EXCEPT
                          !.tenant = sess[s].tenant, !.response = out]]
                \/ Raise(s, sess[s], 500, "storage")
    /\ UNCHANGED <<prompts, versions, nextId, lock, pendP, pendV>>

\* ------------------------------------------------- request validation
\* The request body is validated against the route's schema before the
\* route function is called; a body that fails is answered with 422.
\* Bodies a client can send to POST /v1/prompts: with or without tenant_id,
\* with a content that may be empty
PromptCreateRequests ==
    [name : Titles, content : Bodies \cup {EmptyBody}, tenant_id : TenantIds]
    \cup [name : Titles, content : Bodies \cup {EmptyBody}]

\* variant: the schema puts no constraint on content
PromptBase_any_content(payload) ==
    /\ payload.name # NoTitle
    /\ "tenant_id" \in DOMAIN payload
    /\ payload.tenant_id > 0

\* PromptBase: name min_length=1, content min_length=1,
\* tenant_id: int = Field(..., gt=0)
PromptBase(payload) ==
    /\ payload.name # NoTitle
    /\ min_length_1(payload.content)
    /\ "tenant_id" \in DOMAIN payload
    /\ payload.tenant_id > 0

\* POST /v1/prompts with any body: 422, or the route is entered with
\* tenant_id, title and body taken from the payload
create_prompt_request(s) ==
    /\ sess[s].pc = "idle"
    /\ \E payload \in PromptCreateRequests :
          IF ~PromptBase(payload)
          THEN Raise(s, [IdleSession EXCEPT !.op = "create", !.attempts = 1],
                     422, "validation")
          ELSE sess' = [sess EXCEPT ![s] = [IdleSession EXCEPT
                           !.pc = "create_add_prompt", !.op = "create",
                           !.tenant = payload.tenant_id,
                           !.title = payload.name,
                           !.content = payload.content, !.attempts = 1]]
    /\ UNCHANGED <<prompts, versions, nextId, lock, pendP, pendV>>

\* Bodies a client can send to PATCH /v1/prompts/{prompt_id}
PromptUpdateRequests ==
    PromptUpdate
    \cup [content : {EmptyBody}, title : {NoTitle}, description : {NULL}]

\* PromptUpdate.content: Optional[str] = Field(None, min_length=1)
PromptUpdate_content(payload) ==
    payload.content = NULL \/ min_length_1(payload.content)

\* PATCH /v1/prompts/{prompt_id} with any body: 422, or the route is
\* entered and the service looks the prompt up
update_prompt_request(s) ==
    /\ sess[s].pc = "idle"
    /\ \E id \in PromptIds, pl \in PromptUpdateRequests :
          LET r == [IdleSession EXCEPT !.op = "update", !.pid = id,
                       !.content = pl.content, !.title = pl.title,
                       !.description = pl.description, !.attempts = 1]
          IN  IF ~PromptUpdate_content(pl)
              THEN Raise(s, r, 422, "validation")
              ELSE IF get_prompt(VisiblePrompts(s), id) = {}
              THEN Raise(s, r, 404, "notfound")
              ELSE sess' = [sess EXCEPT ![s] =
                               [r EXCEPT !.pc = "update_read_max"]]
    /\ UNCHANGED <<prompts, versions, nextId, lock, pendP, pendV>>

\* ------------------------------------------------------- search_prompts
\* an optional datetime field that was not given; an optional tenant_id
\* that was not given (tenant_id has gt=0)
NoInstant == 0
NoTenant == 0
\* PromptSearchRequest bodies: a text query or none, a tenant or none,
\* creation-date bounds or none, offset (ge=0) and limit (ge=1, default 20)
Queries == {NULL, "T1", "_copy"}
DateBounds == {NoInstant, 2}
PromptSearchRequest ==
    [query : Queries, tenant_id : {NoTenant} \cup Tenants,
     created_after : DateBounds, created_before : DateBounds,
     offset : Skips, limit : {1, 20}]

\* Prompt.title.ilike(f"%{payload.query}%"): the title holds the text
title_ilike(title, text) == \E i \in DOMAIN title : title[i] = text
\* Prompt.description.ilike(...): a NULL description matches nothing
description_ilike(description, text) ==
    description # NULL /\ description = text

\* the filters the route adds to `query`, one filter() call for each field
\* of the payload that is given
where_criteria(payload) ==
    {f \in {"query", "tenant_id", "created_after", "created_before"} :
        \/ f = "query" /\ payload.query # NULL
        \/ f = "tenant_id" /\ payload.tenant_id # NoTenant
        \/ f = "created_after" /\ payload.created_after # NoInstant
        \/ f = "created_before" /\ payload.created_before # NoInstant}

\* the rows `query` selects: title or description match, tenant, dates
search_filter(payload, prompt) ==
    /\ payload.query # NULL
       => \/ title_ilike(prompt.title, payload.query)
          \/ description_ilike(prompt.description, payload.query)
    /\ payload.tenant_id # NoTenant => prompt.tenant_id = payload.tenant_id
    /\ payload.created_after # NoInstant
       => prompt.created_at >= payload.created_after
    /\ payload.created_before # NoInstant
       => prompt.created_at <= payload.created_before

\* `... if query.whereclause else []`: the truth value of the WHERE clause
\* as a Python object.  Without criteria it is None (false); a single ==
\* comparison answers by comparing its two sides as objects, a column and a
\* bound value (false); for every other clause (ILIKE, >=, <=, OR, AND)
\* the truth value is not defined and bool() raises TypeError.
whereclause_bool(payload) ==
    IF where_criteria(payload) \subseteq {"tenant_id"}
    THEN "False" ELSE "TypeError"

\* count_query = select(Prompt).filter(*[]): reached only when the truth
\* value is false, so the statement counts every row
count_query(rows, payload) == rows

\* .order_by(Prompt.created_at.desc())
RECURSIVE order_by_created_at_desc(_)
order_by_created_at_desc(rows) ==
    IF rows = {} THEN <<>>
    ELSE LET first == CHOOSE p \in rows :
                         \A q \in rows : p.created_at >= q.created_at
         IN  <<first>> \o order_by_created_at_desc(rows \ {first})

\* query.offset(offset).limit(limit)
search_query(rows, payload) ==
    LET f == order_by_created_at_desc(
                 {p \in rows : search_filter(payload, p)})
        last == IF payload.offset + payload.limit < Len(f)
                THEN payload.offset + payload.limit ELSE Len(f)
    IN  SubSeq(f, payload.offset + 1, last)

\* POST /v1/prompts/search: build `query`, then total =
\* len(db.execute(count_query).scalars().all()); any exception becomes 500
search_count(s) ==
    /\ sess[s].pc = "idle"
    /\ \E payload \in PromptSearchRequest :
          LET r == [IdleSession EXCEPT !.op = "search", !.payload = payload,
                       !.attempts = 1]
          IN  IF whereclause_bool(payload) = "TypeError"
              THEN Raise(s, r, 500, "type")
              ELSE \/ sess' = [sess EXCEPT ![s] = [r EXCEPT
                        !.pc = "search_page",
                        !.total = Cardinality(
                            count_query(VisiblePrompts(s), payload))]]
                   \/ Raise(s, r, 500, "storage")
    /\ UNCHANGED <<prompts, versions, nextId, lock, pendP, pendV>>

\* prompts = db.execute(search_query).scalars().all()
search_page(s) ==
    /\ sess[s].pc = "search_page"
    /\ \/ sess' = [sess EXCEPT ![s].pc = "search_read_versions",
                      ![s].response =
                          search_query(VisiblePrompts(s), sess[s].payload)]
       \/ Raise(s, sess[s], 500, "storage")
    /\ UNCHANGED <<prompts, versions, nextId, lock, pendP, pendV>>

\* for prompt in prompts: select the version current_version_id names and
\* build the PromptResponse; PromptSearchResponse(total=total, results=...)
search_read_versions(s) ==
    /\ sess[s].pc = "search_read_versions"
    /\ LET page == sess[s].response
           out == [i \in 1..Len(page) |->
                      GetPromptResponse(page[i], VisibleVersions(s))]
       IN  IF \E i \in 1..Len(out) : ~min_length_1(out[i].content)
           THEN Raise(s, sess[s], 500, "validation")
           ELSE \/ sess' = [sess EXCEPT ![s] =
                      [Outcome(sess[s], "returned", 200, "none") EXCEPT
                          !.payload = sess[s].payload,
                          !.total = sess[s].total, !.response = out]]
                \/ Raise(s, sess[s], 500, "storage")
    /\ UNCHANGED <<prompts, versions, nextId, lock, pendP, pendV>>

\* ------------------------------------------------------- storage failure
\* positions inside the services' try blocks
TryPcs ==
    {"create_add_prompt", "create_add_version", "create_commit",
     "create_refresh",
     "update_read_max", "update_add_version", "update_commit",
     "update_refresh",
     "delete_mark", "delete_commit",
     "duplicate_read_current", "duplicate_add_prompt",
     "duplicate_add_version", "duplicate_commit", "duplicate_refresh",
     "rollback_read_max", "rollback_add_version", "rollback_commit",
     "rollback_refresh"}

\* variant: the handler commits what the call had flushed so far
except_SQLAlchemyError_commits(s) ==
    /\ sess[s].pc \in TryPcs
    /\ IF lock = s
       THEN /\ prompts' = prompts \cup pendP
            /\ versions' = versions \cup pendV
            /\ nextId' = uuid4
            /\ lock' = NoSession /\ pendP' = {} /\ pendV' = {}
       ELSE UNCHANGED <<prompts, versions, nextId, lock, pendP, pendV>>
    /\ Raise(s, sess[s], 500, "storage")

\* except SQLAlchemyError: db.rollback(); raise HTTPException(500)
\* (OperationalError such as "database is locked", a lost connection, ...)
except_SQLAlchemyError(s) ==
    /\ sess[s].pc \in TryPcs
    /\ SessionRollback(s)
    /\ Raise(s, sess[s], 500, "storage")
    /\ UNCHANGED <<prompts, versions, nextId>>

\* ---------------------------------------------------------------- get_db
\* variant: closing the session commits what is still flushed in it
get_db_close_commits(s) ==
    /\ sess[s].pc \in {"returned", "raised"}
    /\ IF lock = s
       THEN /\ prompts' = prompts \cup pendP
            /\ versions' = versions \cup pendV
            /\ nextId' = uuid4
            /\ lock' = NoSession /\ pendP' = {} /\ pendV' = {}
       ELSE UNCHANGED <<prompts, versions, nextId, lock, pendP, pendV>>
    /\ sess' = [sess EXCEPT ![s] = IdleSession]

\* except Exception: db.rollback(); raise / finally: db.close()
get_db_close(s) ==
    /\ sess[s].pc \in {"returned", "raised"}
    /\ SessionRollback(s)
    /\ sess' = [sess EXCEPT ![s] = IdleSession]
    /\ UNCHANGED <<prompts, versions, nextId>>

\* ---------------------------------------------------------------- Next
Next ==
    \E s \in Sessions :
        \/ StartCreate(s)
        \/ create_add_prompt(s)
        \/ create_add_version(s)
        \/ create_commit(s)
        \/ create_refresh(s)
        \/ update_get_prompt(s)
        \/ update_read_max(s)
        \/ update_add_version(s)
        \/ update_commit(s)
        \/ update_refresh(s)
        \/ update_read_version(s)
        \/ rollback_get_target(s)
        \/ rollback_read_max(s)
        \/ rollback_add_version(s)
        \/ rollback_commit(s)
        \/ rollback_refresh(s)
        \/ delete_get_prompt(s)
        \/ delete_mark(s)
        \/ delete_commit(s)
        \/ duplicate_get_prompt(s)
        \/ duplicate_read_current(s)
        \/ duplicate_add_prompt(s)
        \/ duplicate_add_version(s)
        \/ duplicate_commit(s)
        \/ duplicate_refresh(s)
        \/ create_version(s)
        \/ delete_version(s)
        \/ list_versions(s)
        \/ except_SQLAlchemyError(s)
        \/ get_db_close(s)

Spec == Init /\ [][Next]_vars

\* the same program with the prompt listing route in use as well
NextList ==
    \/ Next
    \/ \E s \in Sessions :
          \/ list_get_prompts(s)
          \/ list_read_versions(s)

SpecList == Init /\ [][NextList]_vars

\* the program with the get-by-id route in use as well
NextGet ==
    \/ Next
    \/ \E s \in Sessions :
          \/ get_by_id_prompt(s)
          \/ get_by_id_version(s)

SpecGet == Init /\ [][NextGet]_vars

\* one session serving the mutating requests while the other serves the
\* reading ones
Writer == "s1"
Reader == "s2"
\* a third session, which serves the deletes where three requests are raced
Deleter == "s3"
NextRead ==
    \/ StartCreate(Writer)
    \/ create_add_prompt(Writer)
    \/ create_add_version(Writer)
    \/ create_commit(Writer)
    \/ create_refresh(Writer)
    \/ update_get_prompt(Writer)
    \/ update_read_max(Writer)
    \/ update_add_version(Writer)
    \/ update_commit(Writer)
    \/ update_refresh(Writer)
    \/ update_read_version(Writer)
    \/ rollback_get_target(Writer)
    \/ rollback_read_max(Writer)
    \/ rollback_add_version(Writer)
    \/ rollback_commit(Writer)
    \/ rollback_refresh(Writer)
    \/ delete_get_prompt(Writer)
    \/ delete_mark(Writer)
    \/ delete_commit(Writer)
    \/ duplicate_get_prompt(Writer)
    \/ duplicate_read_current(Writer)
    \/ duplicate_add_prompt(Writer)
    \/ duplicate_add_version(Writer)
    \/ duplicate_commit(Writer)
    \/ duplicate_refresh(Writer)
    \/ except_SQLAlchemyError(Writer)
    \/ get_db_close(Writer)
    \/ list_versions(Reader)
    \/ get_by_id_prompt(Reader)
    \/ get_by_id_version(Reader)
    \/ list_get_prompts(Reader)
    \/ list_read_versions(Reader)
    \/ get_db_close(Reader)

SpecRead == Init /\ [][NextRead]_vars

\* ------------------------------------------------------- archive
\* Archiving has no route and no service function; the column is
\* Prompt.is_archived.  As the engine's description has it, archiving and
\* unarchiving are a simple flag update of an existing prompt, with no
\* effect on its versions.
archive_prompt(s) ==
    /\ sess[s].pc = "idle"
    /\ \E id \in PromptIds, flag \in BOOLEAN :
          LET r == [IdleSession EXCEPT !.op = "archive", !.pid = id,
                       !.attempts = 1]
          IN  IF get_prompt(VisiblePrompts(s), id) = {}
              THEN /\ Raise(s, r, 404, "notfound")
                   /\ UNCHANGED prompts
              ELSE /\ lock = NoSession
                   /\ prompts' = {IF p.id = id
                                  THEN [p EXCEPT !.is_archived = flag]
                                  ELSE p : p \in prompts}
                   /\ Return(s, r, 200)
    /\ UNCHANGED <<versions, nextId, lock, pendP, pendV>>

\* the program with prompts being archived
NextArchive ==
    \/ Next
    \/ \E s \in Sessions : archive_prompt(s)

\* the same with the prompt listing route in use as well
NextArchiveList ==
    \/ NextList
    \/ \E s \in Sessions : archive_prompt(s)

\* requests served one at a time: only the first session slot is used
InitSeq ==
    /\ prompts = {}
    /\ versions = {}
    /\ nextId = 1
    /\ lock = NoSession
    /\ pendP = {}
    /\ pendV = {}
    /\ sess = [s \in Sessions |->
                 IF s = "s1" THEN IdleSession ELSE ParkedSession]

SpecSeq == InitSeq /\ [][Next]_vars

SpecArchive == InitSeq /\ [][NextArchive]_vars

SpecArchiveList == InitSeq /\ [][NextArchiveList]_vars

\* requests served one at a time, with request bodies that the schemas
\* reject among them
NextValid ==
    \/ Next
    \/ \E s \in Sessions :
          \/ create_prompt_request(s)
          \/ update_prompt_request(s)

SpecValid == InitSeq /\ [][NextValid]_vars

\* requests served one at a time, the search route among them
NextSearch ==
    \/ Next
    \/ \E s \in Sessions :
          \/ search_count(s)
          \/ search_page(s)
          \/ search_read_versions(s)

SpecSearch == InitSeq /\ [][NextSearch]_vars

\* three requests at a time: creates and updates in one session, deletes
\* in another, the reading routes in the third
InitRace ==
    /\ prompts = {}
    /\ versions = {}
    /\ nextId = 1
    /\ lock = NoSession
    /\ pendP = {}
    /\ pendV = {}
    /\ sess = [s \in Sessions |-> IdleSession]

NextRace ==
    \/ StartCreate(Writer)
    \/ create_add_prompt(Writer)
    \/ create_add_version(Writer)
    \/ create_commit(Writer)
    \/ create_refresh(Writer)
    \/ update_get_prompt(Writer)
    \/ update_read_max(Writer)
    \/ update_add_version(Writer)
    \/ update_commit(Writer)
    \/ update_refresh(Writer)
    \/ update_read_version(Writer)
    \/ get_db_close(Writer)
    \/ delete_get_prompt(Deleter)
    \/ delete_mark(Deleter)
    \/ delete_commit(Deleter)
    \/ get_db_close(Deleter)
    \/ get_by_id_prompt(Reader)
    \/ get_by_id_version(Reader)
    \/ list_get_prompts(Reader)
    \/ list_read_versions(Reader)
    \/ get_db_close(Reader)

SpecRace == InitRace /\ [][NextRace]_vars

\* requests that run to their end: creates and rollbacks in one session
\* raced with deletes in another
NextClose ==
    \/ StartCreate(Writer)
    \/ create_add_prompt(Writer)
    \/ create_add_version(Writer)
    \/ create_commit(Writer)
    \/ create_refresh(Writer)
    \/ rollback_get_target(Writer)
    \/ rollback_read_max(Writer)
    \/ rollback_add_version(Writer)
    \/ rollback_commit(Writer)
    \/ rollback_refresh(Writer)
    \/ except_SQLAlchemyError(Writer)
    \/ get_db_close(Writer)
    \/ delete_get_prompt(Deleter)
    \/ delete_mark(Deleter)
    \/ delete_commit(Deleter)
    \/ except_SQLAlchemyError(Deleter)
    \/ get_db_close(Deleter)

\* a request that was started goes on: the route and the service are
\* synchronous code, a statement that waits for the write lock ends with
\* OperationalError when the busy timeout expires, and the framework
\* resumes get_db after the route has returned or raised
RequestRuns(s) ==
    /\ sess[s].pc \notin {"idle", "parked"}
    /\ NextClose
    /\ sess'[s] # sess[s]

SpecClose ==
    /\ InitRace
    /\ [][NextClose]_vars
    /\ \A s \in Sessions : WF_vars(RequestRuns(s))

\* ------------------------------------------------------------ properties
VersionsOf(rows, id) == {v \in rows : v.prompt_id = id}
NumbersOf(rows, id) == {v.version_number : v \in VersionsOf(rows, id)}
MaxNumber(rows, id) ==
    IF NumbersOf(rows, id) = {} THEN 0 ELSE SetMax(NumbersOf(rows, id))
\* version_number of the version a prompt row points at (0 when dangling)
CurrentNumber(rows, p) ==
    LET cur == {v \in rows : v.id = p.current_version_id}
    IN  IF cur = {} THEN 0 ELSE SetMax({v.version_number : v \in cur})
Finished == {"returned", "raised"}
\* session s takes the step that commits its update / its rollback
UpdateCommits(s) ==
    /\ sess[s].pc = "update_commit"
    /\ sess'[s].pc = "update_refresh"
RollbackCommits(s) ==
    /\ sess[s].pc = "rollback_commit"
    /\ sess'[s].pc = "rollback_refresh"
\* the committed rows of version k of prompt id
VersionK(id, k) ==
    {v \in versions : v.prompt_id = id /\ v.version_number = k}

\* C1: for every existing prompt, the version numbers of its committed
\* versions are exactly 1..count: they start at 1, have no gap and no
\* duplicate, whatever calls succeeded or failed before.
C1_ContiguousNumbers ==
    \A p \in prompts :
        NumbersOf(versions, p.id) = 1..Cardinality(VersionsOf(versions, p.id))

\* a prompt has reached three versions
C1_Witness ==
    \E p \in prompts : Cardinality(VersionsOf(versions, p.id)) = 3

\* C2: concurrent updates of one prompt never commit two versions with the
\* same version_number, and a call whose insert collides commits nothing.
C2_NoDuplicateUnderRace ==
    /\ [](\A v \in versions, w \in versions :
            (v.prompt_id = w.prompt_id /\ v.version_number = w.version_number)
            => v = w)
    /\ [][\A s \in Sessions :
            (sess[s].pc = "update_add_version" /\ sess'[s].cause = "unique")
            => (versions' = versions /\ prompts' = prompts)]_vars

\* two updates raced on one prompt: one committed, the other collided
C2_Witness ==
    \E s \in Sessions, t \in Sessions :
        /\ sess[s].op = "update" /\ sess[s].cause = "unique"
        /\ sess[t].op = "update" /\ sess[t].pc = "returned"
        /\ \E p \in prompts : Cardinality(VersionsOf(versions, p.id)) = 2

\* C3: an update whose insert violates the uniqueness constraint is retried
\* once, and fails only after the second collision, with ConflictError (409).
C3_RetryOnceThenConflict ==
    \A s \in Sessions :
        sess[s].cause = "unique" => (sess[s].attempts = 2 /\ sess[s].status = 409)

\* C4: every existing prompt's current_version_id is set and references an
\* existing version of that same prompt.
C4_PointerValid ==
    \A p \in prompts :
        /\ p.current_version_id # NoVersion
        /\ \E v \in versions :
              v.id = p.current_version_id /\ v.prompt_id = p.id

\* a prompt whose pointer was moved to its second version
C4_Witness ==
    \E p \in prompts : \E v \in versions :
        v.id = p.current_version_id /\ v.prompt_id = p.id
        /\ v.version_number = 2

\* C5: a prompt row exists iff at least one version row carries its id.
C5_PromptIffVersions ==
    /\ \A p \in prompts : VersionsOf(versions, p.id) # {}
    /\ \A v \in versions : \E p \in prompts : p.id = v.prompt_id

\* C6: a successful update of a prompt whose largest version_number is m
\* inserts exactly one version, numbered m+1, with the new body, and points
\* current_version_id at it.
C6_UpdateAppends ==
    [][\A s \in Sessions :
         UpdateCommits(s) =>
           \E n \in versions' :
              /\ n \notin versions
              /\ versions' = versions \cup {n}
              /\ n.prompt_id = sess[s].pid
              /\ n.version_number = MaxNumber(versions, sess[s].pid) + 1
              /\ n.body = sess[s].content
              /\ \A p \in prompts' :
                    p.id = sess[s].pid => p.current_version_id = n.id]_vars

\* an update returned 200 and its prompt is current at version 2
C6_Witness ==
    \E s \in Sessions :
        /\ sess[s].op = "update" /\ sess[s].pc = "returned"
        /\ sess[s].status = 200
        /\ \E p \in prompts : CurrentNumber(versions, p) = 2

\* C7: an update that supplies only metadata creates no version, leaves
\* current_version_id alone and succeeds in writing the supplied title and
\* description.
C7_MetadataOnlyUpdate ==
    [][\A s \in Sessions :
         (sess[s].op = "update" /\ sess[s].content = NULL
          /\ sess'[s].pc # sess[s].pc)
         => /\ versions' = versions
            /\ \A p \in prompts : \E q \in prompts' :
                  q.id = p.id /\ q.current_version_id = p.current_version_id
            /\ sess'[s].pc \in Finished =>
                 /\ sess'[s].status = 200
                 /\ \A q \in prompts' : q.id = sess[s].pid =>
                       /\ sess[s].title # NoTitle => q.title = sess[s].title
                       /\ sess[s].description # NULL
                             => q.description = sess[s].description]_vars

\* C8: a successful rollback to version k adds a version whose body is the
\* body of version k, and version k itself stays as it was.
C8_RollbackCopiesBody ==
    [][\A s \in Sessions :
         RollbackCommits(s) =>
           LET target == VersionK(sess[s].pid, sess[s].k)
           IN  /\ target # {}
               /\ target \subseteq versions'
               /\ \E n \in versions' \ versions :
                     \A t \in target : n.body = t.body]_vars

\* a rollback returned and version 3 of a prompt repeats the body of
\* version 1, which differs from the body of version 2
C8_Witness ==
    \E s \in Sessions :
        /\ sess[s].op = "rollback" /\ sess[s].pc = "returned"
        /\ \E a \in versions, b \in versions, c \in versions :
              /\ a.prompt_id = b.prompt_id /\ b.prompt_id = c.prompt_id
              /\ a.version_number = 1 /\ b.version_number = 2
              /\ c.version_number = 3
              /\ a.body = c.body /\ a.body # b.body

\* C9: a successful rollback numbers its version m+1 and points
\* current_version_id at that new row, never at the target row; the
\* version_number of a prompt's current version never decreases.
C9_RollbackMovesForward ==
    [][/\ \A s \in Sessions :
            RollbackCommits(s) =>
              \E n \in versions' \ versions :
                 /\ n.version_number = MaxNumber(versions, sess[s].pid) + 1
                 /\ n \notin VersionK(sess[s].pid, sess[s].k)
                 /\ \A p \in prompts' :
                       p.id = sess[s].pid => p.current_version_id = n.id
       /\ \A p \in prompts, q \in prompts' :
            q.id = p.id =>
               CurrentNumber(versions', q) >= CurrentNumber(versions, p)]_vars

\* a rollback to version 1 returned and the prompt is current at version 3
C9_Witness ==
    \E s \in Sessions :
        /\ sess[s].op = "rollback" /\ sess[s].pc = "returned"
        /\ \E p \in prompts : CurrentNumber(versions, p) = 3

Steps(s) == sess'[s] # sess[s]
\* session s takes a step that ends its call with an exception
Fails(s) == sess[s].pc \notin Finished /\ sess'[s].pc = "raised"
\* the committed rows stay as they are
CommittedUnchanged == prompts' = prompts /\ versions' = versions

\* C11: a create that fails at the prompt insert, the version insert, the
\* pointer update or the commit persists nothing: the failing step leaves
\* the committed rows as they were, and once the call has failed neither
\* its prompt row nor its version row is committed or left pending.
C11_FailedCreatePersistsNothing ==
    [][\A s \in Sessions :
         (sess[s].op = "create" /\ Fails(s)
           /\ sess[s].pc \in {"create_add_prompt", "create_add_version",
                               "create_commit"})
         => /\ CommittedUnchanged
            /\ sess'[s].status = 500
            /\ \A p \in prompts' \cup pendP' : p.id # sess[s].newPid
            /\ \A v \in versions' \cup pendV' :
                  v.prompt_id # sess[s].newPid /\ v.id # sess[s].newVid
            /\ lock' # s]_vars

\* a create failed with 500 next to a committed prompt, and nothing of it
\* is pending
C11_Witness ==
    \E s \in Sessions :
        /\ sess[s].op = "create" /\ sess[s].pc = "raised"
        /\ sess[s].status = 500
        /\ prompts # {} /\ pendP = {} /\ pendV = {}

\* session s takes the step that commits its create / its duplicate
CreateCommits(s) ==
    /\ sess[s].pc = "create_commit"
    /\ sess'[s].pc = "create_refresh"
DuplicateCommits(s) ==
    /\ sess[s].pc = "duplicate_commit"
    /\ sess'[s].pc = "duplicate_refresh"
\* no committed row carries prompt id `id`
FreshPromptId(id) ==
    /\ \A p \in prompts : p.id # id
    /\ \A v \in versions : v.prompt_id # id
\* after the step, prompt `id` is one row with exactly one version, numbered
\* 1, with body `body`, and the row points at that version
HasOnlyVersionOne(id, body) ==
    /\ Cardinality(get_prompt(prompts', id)) = 1
    /\ Cardinality(VersionsOf(versions', id)) = 1
    /\ \A v \in VersionsOf(versions', id) :
          /\ v.version_number = 1
          /\ v.body = body
          /\ v \notin versions
          /\ \A p \in get_prompt(prompts', id) : p.current_version_id = v.id

\* C12: a successful create commits a prompt under an id no committed row
\* carried, with exactly one version: number 1, the supplied body, and
\* current_version_id referencing it; it is answered with 201 while that
\* prompt is there.
C12_CreateYieldsVersionOne ==
    [][\A s \in Sessions :
         /\ CreateCommits(s) =>
              /\ FreshPromptId(sess[s].newPid)
              /\ HasOnlyVersionOne(sess[s].newPid, sess[s].content)
              /\ \A p \in get_prompt(prompts', sess[s].newPid) :
                    p.tenant_id = sess[s].tenant /\ p.title = sess[s].title
         /\ (sess[s].pc = "create_refresh" /\ sess'[s].pc = "returned")
              => /\ sess'[s].status = 201
                 /\ get_prompt(prompts, sess[s].newPid) # {}]_vars

\* a create returned 201 and a prompt with the single version 1 of body "B"
\* is committed
C12_Witness ==
    \E s \in Sessions :
        /\ sess[s].op = "create" /\ sess[s].pc = "returned"
        /\ sess[s].status = 201
        /\ \E p \in prompts : \E v \in versions :
              /\ VersionsOf(versions, p.id) = {v}
              /\ v.version_number = 1 /\ v.body = "B"
              /\ p.current_version_id = v.id

\* the body of the committed version that prompt row p points at
CurrentBodies(p) ==
    {v.body : v \in {w \in versions :
                       w.id = p.current_version_id /\ w.prompt_id = p.id}}

\* C13: a successful duplicate of p commits a prompt under a new id with
\* exactly one version, numbered 1, whose body is the body of the version
\* that was p's current one when the call read p, however many versions p
\* has.  Version rows are never edited, so that body is the one the row the
\* call's copy of p points at still carries when the call reads it.
C13_DuplicateCopiesCurrentBody ==
    [][\A s \in Sessions :
         /\ (sess[s].pc = "duplicate_read_current" /\ Steps(s)
              /\ sess'[s].pc = "duplicate_add_prompt")
            => \A e \in sess[s].existing :
                  /\ CurrentBodies(e) # {}
                  /\ sess'[s].tbody \in CurrentBodies(e)
         /\ DuplicateCommits(s)
            => /\ FreshPromptId(sess[s].newPid)
               /\ sess[s].newPid # sess[s].pid
               /\ HasOnlyVersionOne(sess[s].newPid, sess[s].tbody)]_vars

\* the rows of every prompt other than `id` are the same after the step
OthersUnchanged(id) ==
    /\ {p \in prompts : p.id # id} = {p \in prompts' : p.id # id}
    /\ {v \in versions : v.prompt_id # id}
          = {v \in versions' : v.prompt_id # id}
\* the rows of prompt `id` are the same after the step
PromptUnchanged(id) ==
    /\ get_prompt(prompts', id) = get_prompt(prompts, id)
    /\ VersionsOf(versions', id) = VersionsOf(versions, id)

DeleteCommits(s) ==
    /\ sess[s].pc = "delete_commit"
    /\ sess'[s].pc = "returned"

\* C15: once a delete of p has succeeded, no committed prompt row has id p,
\* no committed version row has prompt_id p, and the rows of every other
\* prompt are as they were.
C15_DeleteRemovesAll ==
    [][\A s \in Sessions :
         DeleteCommits(s) =>
           /\ get_prompt(prompts', sess[s].pid) = {}
           /\ VersionsOf(versions', sess[s].pid) = {}
           /\ OthersUnchanged(sess[s].pid)]_vars

\* C16: an update, rollback or duplicate that fails has committed nothing:
\* when the call ends with an error, the committed rows are as they were
\* before the step, no committed version or prompt is one that the call
\* wrote, and a row the failed call had flushed is dropped, never
\* committed, by the time its session is closed.
C16_FailedCallCommitsNothing ==
    [][\A s \in Sessions :
         sess[s].op \in {"update", "rollback", "duplicate"} =>
           /\ Fails(s)
               => /\ CommittedUnchanged
                  /\ \A v \in versions' : v.id # sess[s].newVid
                  /\ \A p \in prompts' : p.id # sess[s].newPid
           /\ (sess[s].pc = "raised" /\ lock = s) => CommittedUnchanged
           /\ (sess[s].pc = "raised" /\ Steps(s))
                 => (lock' # s /\ (lock = s => pendP' = {} /\ pendV' = {}))]_vars

\* session s takes the first step of a call of operation op
Calls(s, op) == sess[s].pc = "idle" /\ sess'[s].op = op
\* nothing is committed, flushed or locked by the step
NothingWritten ==
    UNCHANGED <<prompts, versions, nextId, lock, pendP, pendV>>

\* C17: an update, duplicate or delete that names a prompt id with no
\* committed prompt row goes no further than its lookup: the call gets past
\* the lookup only when the id resolves, otherwise it ends there with 404;
\* the lookup writes nothing.
C17_UnknownPromptIs404 ==
    [][\A s \in Sessions :
         (Calls(s, "update") \/ Calls(s, "duplicate") \/ Calls(s, "delete"))
         => /\ NothingWritten
            /\ IF sess'[s].pc \in Finished
               THEN /\ sess'[s].pc = "raised"
                    /\ sess'[s].status = 404
                    /\ sess'[s].cause = "notfound"
               ELSE get_prompt(prompts, sess'[s].pid) # {}]_vars

\* a delete and a duplicate both ended with 404 while a prompt exists
C17_Witness ==
    /\ prompts # {}
    /\ \E s \in Sessions, t \in Sessions :
          /\ sess[s].op = "delete" /\ sess[t].op = "duplicate"
          /\ \A u \in {s, t} :
                /\ sess[u].pc = "raised" /\ sess[u].status = 404
                /\ sess[u].cause = "notfound"

\* C18: a rollback that names a prompt id with no committed prompt row, or
\* a version number k the prompt has no version of (k <= 0 and k past the
\* largest included), goes no further than its lookup: the call gets past
\* the lookup only when the prompt exists and has a version k, otherwise it
\* ends there with 404; the lookup writes nothing.
C18_RollbackNotFound ==
    [][\A s \in Sessions :
         Calls(s, "rollback")
         => /\ NothingWritten
            /\ IF sess'[s].pc \in Finished
               THEN /\ sess'[s].pc = "raised"
                    /\ sess'[s].status = 404
                    /\ sess'[s].cause = "notfound"
               ELSE /\ get_prompt(prompts, sess'[s].pid) # {}
                    /\ VersionK(sess'[s].pid, sess'[s].k) # {}]_vars

\* C19: a version listing of a prompt answers with exactly the committed
\* versions of that prompt, each once, in strictly ascending version_number,
\* and writes nothing; the answer is fixed by the committed versions, so
\* every call made while they stay the same answers the same sequence.
C19_ListVersionsAscending ==
    [][\A s \in Sessions :
         Calls(s, "list_versions")
         => /\ NothingWritten
            /\ sess'[s].status = 200 =>
                 LET r == sess'[s].response
                     vs == VersionsOf(versions, sess'[s].pid)
                 IN  /\ Len(r) = Cardinality(vs)
                     /\ \A v \in vs : \E i \in 1..Len(r) :
                           r[i] = [id |-> v.id, version |-> v.version_number,
                                   content |-> v.body]
                     /\ \A i \in 1..Len(r), j \in 1..Len(r) :
                           i < j => r[i].version < r[j].version]_vars

\* a listing answered with two versions of different bodies
C19_Witness ==
    \E s \in Sessions :
        /\ sess[s].op = "list_versions" /\ sess[s].status = 200
        /\ Len(sess[s].response) = 2
        /\ sess[s].response[1].content # sess[s].response[2].content
        /\ sess[s].response[1].version = 1

\* C20: a prompt listing is scoped to the tenant it is requested for: every
\* prompt in the answer has that tenant's tenant_id; and no step of a
\* listing writes anything.
C20_ListPromptsTenantScoped ==
    [][\A s \in Sessions :
         (Steps(s) /\ sess'[s].op = "list_prompts")
         => /\ NothingWritten
            /\ (sess'[s].pc = "returned" /\ sess'[s].status = 200)
                 => \A i \in 1..Len(sess'[s].response) :
                       sess'[s].response[i].tenant_id = sess'[s].tenant]_vars

\* C21: a default prompt listing never answers with an archived prompt,
\* and a version listing of an archived prompt answers with all of its
\* versions.
C21_ArchivedNotListed ==
    [][\A s \in Sessions :
         /\ (Steps(s) /\ sess'[s].op = "list_prompts"
              /\ sess'[s].pc = "returned" /\ sess'[s].status = 200)
            => \A i \in 1..Len(sess'[s].response) :
                  /\ ~sess'[s].response[i].is_deleted
                  /\ \A p \in get_prompt(prompts, sess'[s].response[i].id) :
                        ~p.is_archived
         /\ (Calls(s, "list_versions") /\ sess'[s].status = 200
              /\ \E p \in get_prompt(prompts, sess'[s].pid) : p.is_archived)
            => {sess'[s].response[i].id : i \in 1..Len(sess'[s].response)}
                  = {v.id : v \in VersionsOf(versions, sess'[s].pid)}]_vars

\* in the rows ps, vs: prompt `id` exists, its versions are numbered
\* 1..Len(bodies) with these bodies in order, and its current version is
\* number cur
Shape(ps, vs, id, bodies, cur) ==
    /\ get_prompt(ps, id) # {}
    /\ Cardinality(VersionsOf(vs, id)) = Len(bodies)
    /\ NumbersOf(vs, id) = 1..Len(bodies)
    /\ \A v \in VersionsOf(vs, id) : v.body = bodies[v.version_number]
    /\ \A q \in get_prompt(ps, id) : CurrentNumber(vs, q) = cur

\* C22: served one after the other, Create(body A), Update(body B),
\* Rollback(1) and Duplicate() lead step by step to: versions 1, 2, 3 with
\* bodies A, B, A on the original, current at number 3, version 1 unchanged;
\* and the duplicate under a new id with the single version 1 of body A,
\* the original still current at 3.
C22_Scenario ==
    [][\A s \in Sessions :
         /\ (CreateCommits(s) /\ sess[s].content = "A")
            => Shape(prompts', versions', sess[s].newPid, <<"A">>, 1)
         /\ (UpdateCommits(s) /\ sess[s].content = "B"
              /\ Shape(prompts, versions, sess[s].pid, <<"A">>, 1))
            => Shape(prompts', versions', sess[s].pid, <<"A", "B">>, 2)
         /\ (RollbackCommits(s) /\ sess[s].k = 1
              /\ Shape(prompts, versions, sess[s].pid, <<"A", "B">>, 2))
            => /\ Shape(prompts', versions', sess[s].pid, <<"A", "B", "A">>, 3)
               /\ VersionK(sess[s].pid, 1) \subseteq versions'
         /\ (DuplicateCommits(s)
              /\ Shape(prompts, versions, sess[s].pid, <<"A", "B", "A">>, 3))
            => /\ PromptUnchanged(sess[s].pid)
               /\ Shape(prompts', versions', sess[s].pid, <<"A", "B", "A">>, 3)
               /\ sess[s].newPid # sess[s].pid
               /\ FreshPromptId(sess[s].newPid)
               /\ Shape(prompts', versions', sess[s].newPid, <<"A">>, 1)]_vars

\* the end of the scenario: the original with bodies A, B, A current at 3
\* next to its copy with the single version 1 of body A
C22_Witness ==
    \E s \in Sessions, p \in prompts, q \in prompts :
        /\ sess[s].op = "duplicate" /\ sess[s].pc = "returned"
        /\ p.id # q.id /\ Len(q.title) = 2
        /\ Shape(prompts, versions, p.id, <<"A", "B", "A">>, 3)
        /\ Shape(prompts, versions, q.id, <<"A">>, 1)

\* in the rows ps, vs every prompt points at a version of its own, and no
\* version of it is numbered past the one it points at
Consistent(ps, vs) ==
    \A p \in ps :
        /\ p.current_version_id # NoVersion
        /\ \E v \in vs :
              /\ v.id = p.current_version_id /\ v.prompt_id = p.id
              /\ \A w \in VersionsOf(vs, p.id) :
                    w.version_number <= v.version_number
\* session s takes the step that answers its request of operation op
Answers(s, op) ==
    /\ Steps(s) /\ sess'[s].op = op
    /\ sess'[s].pc = "returned" /\ sess'[s].status = 200
\* a response row shows a committed version of the prompt it is about
ShowsCommittedVersion(row) ==
    \E v \in versions :
        /\ v.prompt_id = row.id
        /\ v.version_number = row.version /\ v.body = row.content

\* C23: the writes of a mutating call become visible together, at its
\* commit: the rows a concurrent reader can select never hold a prompt
\* without pointer, a prompt without version or a version newer than the
\* one its prompt points at, and what get-by-id, the prompt listing and the
\* version listing answer is taken from such rows.
C23_NoIntermediateStateVisible ==
    /\ [](Consistent(VisiblePrompts(Reader), VisibleVersions(Reader)))
    /\ [][/\ (Answers(Reader, "get") \/ Answers(Reader, "list_prompts"))
             => \A i \in 1..Len(sess'[Reader].response) :
                   ShowsCommittedVersion(sess'[Reader].response[i])
          /\ Answers(Reader, "list_versions")
             => \A p \in get_prompt(prompts, sess'[Reader].pid) :
                   /\ Len(sess'[Reader].response) = CurrentNumber(versions, p)
                   /\ \A i \in 1..Len(sess'[Reader].response) :
                         sess'[Reader].response[i].version = i]_vars

\* while an update holds its flushed second version, the version listing
\* of that prompt has answered with the first version alone
C23_Witness ==
    /\ lock = Writer /\ sess[Writer].op = "update"
    /\ sess[Reader].op = "list_versions" /\ sess[Reader].status = 200
    /\ \E v \in pendV :
          /\ v.prompt_id = sess[Reader].pid /\ v.version_number = 2
          /\ Len(sess[Reader].response) = 1

\* an identifier that was handed out and names no prompt: a deleted prompt
\* (or a version row, which never was a prompt)
Gone(id) == id < nextId /\ get_prompt(prompts, id) = {}
LookupOps == {"update", "rollback", "duplicate", "delete", "get"}

\* C24: deleted is terminal: once a prompt is deleted no prompt with its id
\* reappears, the version listing of that id answers with nothing, and no
\* later update, rollback, duplicate, delete or get-by-id of that id gets
\* past its lookup (each ends with not-found).
C24_DeletedIsTerminal ==
    [][\A id \in 1..MaxSeqIds :
         Gone(id) =>
            /\ get_prompt(prompts', id) = {}
            /\ \A s \in Sessions :
                  /\ (Calls(s, "list_versions") /\ sess'[s].pid = id
                       /\ sess'[s].status = 200)
                     => sess'[s].response = <<>>
                  /\ (sess[s].pc = "idle" /\ sess'[s].op \in LookupOps)
                     => sess'[s].pid # id]_vars

\* C25: a create request with an empty content or without tenant_id is
\* answered with a validation error and writes nothing, a create that is
\* let through carries a non-empty content and a tenant, and every version
\* that a create or an update commits has a non-empty body.
C25_ValidatedBodies ==
    [][\A s \in Sessions :
         /\ Calls(s, "create")
            => /\ NothingWritten
               /\ IF sess'[s].pc = "raised"
                  THEN sess'[s].status = 422 /\ sess'[s].cause = "validation"
                  ELSE /\ sess'[s].content \notin {EmptyBody, NULL}
                       /\ sess'[s].tenant \in Tenants
         /\ (CreateCommits(s) \/ UpdateCommits(s))
            => /\ versions' # versions
               /\ \A v \in versions' \ versions :
                     v.body \notin {EmptyBody, NULL}]_vars

\* a create request has been answered with 422 and an update has committed
\* a second version, while every committed version has a body
C25_Witness ==
    /\ \E s \in Sessions :
          /\ sess[s].op = "create" /\ sess[s].pc = "raised"
          /\ sess[s].status = 422
    /\ \E v \in versions : v.version_number = 2
    /\ prompts # {}

\* C26: an update or a rollback of an archived prompt commits like any
\* other: one new version, numbered one past the largest, which the prompt
\* then points at; the prompt is still archived afterwards; and while the
\* call is under way it fails for no reason other than a storage error or a
\* missing content (500).
C26_ArchivedStillEditable ==
    [][\A s \in Sessions :
         (sess[s].op \in {"update", "rollback"}
           /\ \E p \in get_prompt(prompts, sess[s].pid) : p.is_archived)
         => /\ (UpdateCommits(s) \/ RollbackCommits(s))
               => /\ \E v \in versions' \ versions :
                        /\ versions' = versions \cup {v}
                        /\ v.prompt_id = sess[s].pid
                        /\ v.version_number = MaxNumber(versions, sess[s].pid) + 1
                        /\ \A q \in get_prompt(prompts', sess[s].pid) :
                              q.current_version_id = v.id /\ q.is_archived
                  /\ get_prompt(prompts', sess[s].pid) # {}
            /\ Fails(s)
               => /\ sess'[s].status = 500
                  /\ sess'[s].cause \in {"storage", "notnull"}]_vars

\* the only prompt there is was archived at version 1, and the update or
\* rollback that has just returned made version 2 its current one
C26_Witness ==
    \E s \in Sessions, p \in prompts :
        /\ sess[s].op \in {"update", "rollback"} /\ sess[s].pc = "returned"
        /\ prompts = {p} /\ p.is_archived
        /\ Cardinality(versions) = 2
        /\ CurrentNumber(versions, p) = 2

C28_ErrorKindsKept ==
    \A s \in Sessions :
        sess[s].pc = "raised"
        => /\ sess[s].cause = "notfound" => sess[s].status = 404
           /\ sess[s].cause = "unique" => sess[s].status = 409
           /\ sess[s].cause = "storage" => sess[s].status = 500

\* C29: a create-version call that is answered with success has added
\* exactly one version to an existing prompt, numbered one past that
\* prompt's largest version_number and carrying a payload content.
C29_CreateVersionAppends ==
    [][\A s \in Sessions :
         (Calls(s, "create_version") /\ sess'[s].pc = "returned")
         => \E v \in versions' \ versions :
               /\ versions' = versions \cup {v}
               /\ get_prompt(prompts, v.prompt_id) # {}
               /\ v.version_number = MaxNumber(versions, v.prompt_id) + 1
               /\ v.body \in Bodies]_vars

\* prompt p satisfies every filter that the search request pl supplies
Satisfies(pl, p) ==
    /\ pl.query # NULL
       => \/ \E i \in DOMAIN p.title : p.title[i] = pl.query
          \/ p.description = pl.query
    /\ pl.tenant_id # NoTenant => p.tenant_id = pl.tenant_id
    /\ pl.created_after # NoInstant => p.created_at >= pl.created_after
    /\ pl.created_before # NoInstant => p.created_at <= pl.created_before

\* C30: a search that is answered reports as total the number of prompts
\* that satisfy all supplied filters, whatever offset and limit are, and
\* its results are that many of those prompts as fit between offset and
\* offset + limit, each once.
C30_SearchTotalCountsMatches ==
    [][\A s \in Sessions :
         Answers(s, "search")
         => LET pl == sess'[s].payload
                res == sess'[s].response
                m == {p \in prompts : Satisfies(pl, p)}
                rest == IF Cardinality(m) > pl.offset
                        THEN Cardinality(m) - pl.offset ELSE 0
            IN  /\ sess'[s].total = Cardinality(m)
                /\ Len(res) = IF rest < pl.limit THEN rest ELSE pl.limit
                /\ \A i \in 1..Len(res) : \E p \in m : p.id = res[i].id
                /\ \A i, j \in 1..Len(res) :
                      i # j => res[i].id # res[j].id]_vars

\* the response row `out` shows the committed version that the prompt row
\* `row`, as it was read, names as its current one
ReflectsCurrent(row, out) ==
    \E v \in versions :
        /\ v.id = row.current_version_id /\ v.prompt_id = row.id
        /\ out.id = row.id
        /\ out.content = v.body /\ out.version = v.version_number

\* C31: what get-by-id, the prompt listing and update answer for a prompt
\* is the body and version_number of the version that the prompt row they
\* read names in current_version_id.
C31_ResponseReflectsCurrent ==
    [][\A s \in Sessions :
         /\ (Answers(s, "get") \/ Answers(s, "update"))
            => \A e \in sess[s].existing :
                  ReflectsCurrent(e, sess'[s].response[1])
         /\ Answers(s, "list_prompts")
            => \A i \in 1..Len(sess'[s].response) :
                  ReflectsCurrent(sess[s].response[i], sess'[s].response[i])]_vars

\* C32: in every committed state the version that a prompt's
\* current_version_id references carries the largest version_number among
\* the versions of that prompt, whatever creates, updates, rollbacks and
\* duplicates were interleaved before.
C32_PointerAtLargest ==
    \A p \in prompts : \A v \in VersionsOf(versions, p.id) :
        \E c \in VersionsOf(versions, p.id) :
            /\ c.id = p.current_version_id
            /\ c.version_number >= v.version_number

\* a rollback to version 1 and an update have both committed on one prompt,
\* whose pointer is on its third version
C32_Witness ==
    \E p \in prompts : \E c \in VersionsOf(versions, p.id) :
        /\ c.id = p.current_version_id
        /\ c.version_number = 3
        /\ \E v \in VersionsOf(versions, p.id), w \in VersionsOf(versions, p.id) :
              /\ v.version_number = 1 /\ w.version_number = 2
              /\ (w.body = v.body \/ c.body = v.body)
              /\ w.body # c.body


\* session s is inside an update or a rollback, between its lookup and its
\* commit
UpdateOrRollbackUnderWay(s) ==
    /\ sess[s].op \in {"update", "rollback"}
    /\ sess[s].pc \in {"update_read_max", "update_add_version", "update_commit",
                       "rollback_read_max", "rollback_add_version",
                       "rollback_commit"}

\* C33: when a delete of p commits while an update or a rollback of p is
\* between its lookup and its insert, no version row with prompt_id p is
\* left (numbering cannot restart at 1 for the deleted prompt), and no
\* later step of that update or rollback changes the committed rows.
C33_DeleteWinsRace ==
    [][\A s \in Sessions :
         UpdateOrRollbackUnderWay(s) =>
            /\ (get_prompt(prompts, sess[s].pid) # {}
                 /\ get_prompt(prompts', sess[s].pid) = {})
               => VersionsOf(versions', sess[s].pid) = {}
            /\ (Gone(sess[s].pid) /\ Steps(s)) => CommittedUnchanged]_vars


\* C34: a rollback raced with an update or with another rollback of the same
\* prompt never leaves two committed versions of that prompt with one
\* version_number: of the calls that computed the same max+1 the one that
\* inserts second fails at its insert, which leaves the committed rows and
\* the pointer as they were and the call without a flushed row.
C34_RollbackRaceKeepsNumbersUnique ==
    [][\A s \in Sessions :
         /\ RollbackCommits(s)
            => \A v \in versions :
                  v.prompt_id = sess[s].pid => v.version_number < sess[s].nv
         /\ (/\ sess[s].pc \in {"rollback_add_version", "update_add_version"}
             /\ Steps(s)
             /\ VersionK(sess[s].pid, sess[s].nv) # {}
             /\ \/ sess[s].op = "rollback"
                \/ \E t \in Sessions \ {s} :
                      /\ sess[t].pc = "rollback_refresh"
                      /\ sess[t].pid = sess[s].pid /\ sess[t].nv = sess[s].nv)
            => /\ sess'[s].pc = "raised" /\ sess'[s].status = 500
               /\ CommittedUnchanged
               /\ lock' # s]_vars

\* a rollback and an update computed the same number for one prompt: the
\* update committed it and the rollback's insert was rejected
C34_Witness ==
    \E s \in Sessions, t \in Sessions :
        /\ sess[s].op = "rollback" /\ sess[s].cause = "unique"
        /\ sess[t].op = "update" /\ sess[t].pc = "update_refresh"
        /\ Cardinality(VersionK(sess[t].pid, sess[t].nv)) = 1
        /\ sess[t].nv = 2


\* C35: the step that commits an update or a rollback of p gives p exactly
\* one more version and changes nothing else: the versions p had stay as
\* they were, p's row changes in current_version_id and updated_at only,
\* and the rows, pointers and versions of every other prompt are untouched.
C35_UpdateFrame ==
    [][\A s \in Sessions :
         (UpdateCommits(s) \/ RollbackCommits(s)) =>
            /\ Cardinality(VersionsOf(versions', sess[s].pid))
                  = Cardinality(VersionsOf(versions, sess[s].pid)) + 1
            /\ VersionsOf(versions, sess[s].pid) \subseteq versions'
            /\ OthersUnchanged(sess[s].pid)
            /\ \A p \in get_prompt(prompts, sess[s].pid) :
                  \E q \in get_prompt(prompts', sess[s].pid) :
                     q = [p EXCEPT
                             !.current_version_id = q.current_version_id,
                             !.updated_at = q.updated_at]]_vars

\* a rollback has just committed the third version of one prompt while a
\* second prompt with its own version is there
C35_Witness ==
    \E s \in Sessions :
        /\ sess[s].pc = "rollback_refresh"
        /\ Cardinality(VersionsOf(versions, sess[s].pid)) = 3
        /\ \E q \in prompts :
              /\ q.id # sess[s].pid
              /\ \E v \in versions :
                    v.prompt_id = q.id /\ v.id = q.current_version_id


\* C36: a duplicate never falls back to the empty body, whatever update,
\* rollback or delete of its source runs beside it: the body it reads for
\* its copy is the body of a committed version of the source, and the
\* version 1 it commits does not carry the empty body.
C36_DuplicateNeverCopiesEmpty ==
    [][\A s \in Sessions :
         sess[s].op = "duplicate" =>
            /\ (Steps(s) /\ sess'[s].pc = "duplicate_add_prompt")
               => \E v \in VersionsOf(versions, sess[s].pid) :
                     v.body = sess'[s].tbody
            /\ DuplicateCommits(s)
               => \A v \in VersionsOf(versions', sess[s].newPid) :
                     v.body # EmptyBody]_vars


\* C37: no step changes the tenant_id of a prompt that is there or the
\* prompt_id of a version that is there, and the prompt a duplicate commits
\* has the tenant_id of its source.
C37_OwnershipFixed ==
    [][/\ \A p \in prompts : \A q \in prompts' :
             q.id = p.id => q.tenant_id = p.tenant_id
       /\ \A v \in versions : \A w \in versions' :
             w.id = v.id => w.prompt_id = v.prompt_id
       /\ \A s \in Sessions :
             DuplicateCommits(s)
             => \A p \in get_prompt(prompts, sess[s].pid) :
                   /\ get_prompt(prompts', sess[s].newPid) # {}
                   /\ \A q \in get_prompt(prompts', sess[s].newPid) :
                         q.tenant_id = p.tenant_id]_vars

\* a prompt of the second tenant has just been duplicated beside a prompt
\* of the first tenant: copy and source are of tenant 2
C37_Witness ==
    \E p \in prompts, q \in prompts, r \in prompts :
        /\ p.tenant_id = 1
        /\ q.tenant_id = 2 /\ r.tenant_id = 2
        /\ r.id > q.id /\ Len(r.title) = Len(q.title) + 1
        /\ \E s \in Sessions :
              sess[s].pc = "duplicate_refresh" /\ sess[s].pid = q.id
              /\ sess[s].newPid = r.id


\* C38: every session that get_db handed out is closed in the end, whether
\* the request returned or raised; and closing a session whose request
\* raised commits nothing: what the call had flushed, also when the
\* exception was not a SQLAlchemyError and the service did not roll back,
\* is dropped, the write lock is released and the committed rows stay.
C38_SessionsClosed ==
    /\ \A s \in Sessions :
          (sess[s].pc \notin {"idle", "parked"}) ~> (sess[s].pc = "idle")
    /\ [][\A s \in Sessions :
            (sess[s].pc = "raised" /\ Steps(s))
            => /\ sess'[s].pc = "idle"
               /\ CommittedUnchanged
               /\ lock' # s
               /\ lock = s => (pendP' = {} /\ pendV' = {})]_vars

\* a rollback whose prompt was deleted under it has raised AttributeError
\* with its version row flushed and the write lock held
C38_Witness ==
    \E s \in Sessions :
        /\ sess[s].op = "rollback" /\ sess[s].pc = "raised"
        /\ sess[s].cause = "attribute"
        /\ lock = s /\ pendV # {}

====
